---- MODULE Spec2Model ----
(***************************************************************************)
(* Model of the C glue of ziti-sdk-swift (src/lib/ziti.c and               *)
(* src/lib/Ziti-Bridging-Header.h): the dump wrapper with its shared       *)
(* static format buffer, the string / string-array copy helpers over a     *)
(* heap whose allocations may fail, and the pending-bytes throttling hook   *)
(* declared in the bridging header.                                        *)
(***************************************************************************)
EXTENDS Integers, Sequences, FiniteSets, TLC

VARIABLES
    \* ---- ziti_dump_wrapper / ziti_dump_printer (src/lib/ziti.c:28-58)
    dpc,        \* per dump activation: position of its thread of control
    caller,     \* per dump activation: the arguments the caller passed
    zdctxMem,   \* memory holding ziti_dump_ctx structs, by address
    dumpCall,   \* per dump activation: arguments handed to ziti_dump
    emitted,    \* per dump activation: lines ziti_dump has emitted so far
    cur,        \* per dump activation: full text of fmt+args being printed
    msg,        \* the one static char msg[4096] of ziti_dump_printer
    lastCall,   \* per dump activation: the latest call of the wrapped printer
    nCalls,     \* per dump activation: calls of the wrapped printer so far
    \* ---- copyStringArray / copyString / free* (src/lib/ziti.c:64-83)
    cpc,        \* position inside the current helper call
    cop,        \* the current helper call: function, arguments, heap at entry
    mem,        \* the heap: address -> block, or Free
    arrCpy,     \* copyStringArray's local char **arrCpy
    result,     \* value the helper returned
    owned,      \* addresses earlier calls returned and the caller still holds
    allocFailed,        \* calloc / strdup of the current call returned NULL
    nullUsed,           \* the current call wrote through that NULL
    terminated,         \* the process has ended
    shutdownAttempted,  \* shutdownAll() has been attempted
    \* ---- pending-bytes throttling hook (src/lib/Ziti-Bridging-Header.h:30-38)
    bcc,        \* the bytes_consumed_cb_context registered, or NoBcc
    pending,    \* local->remote bytes handed over and not yet consumed
    paused,     \* reads from the local source are paused
    inflight,   \* size of the local read in progress, 0 when none
    throttled,  \* the remote side consumes nothing
    lastCb      \* the latest callback made through bcc

dumpVars == <<dpc, caller, zdctxMem, dumpCall, emitted, cur, msg, lastCall, nCalls>>

copyVars == <<cpc, cop, mem, arrCpy, result, owned, allocFailed, nullUsed,
              terminated, shutdownAttempted>>

pipeVars == <<bcc, pending, paused, inflight, throttled, lastCb>>

vars == <<dumpVars, copyVars, pipeVars>>

Min(a, b) == IF a < b THEN a ELSE b

\* ---------------------------------------------------------------- bounds
MaxLines == 2          \* lines one ziti_dump emits at most

NumStrs  == 2          \* strings the caller holds
MaxCount == 2          \* entries of the caller's array
FreeBlocks == 2        \* heap blocks free at the start
HighWater == 4         \* pending bytes above which local reads pause
LowWater == 2          \* pending bytes below which local reads resume
MaxRead  == 2          \* bytes one local read delivers at most

\* ------------------------------------------------------ program constants
MsgSize == 4096        \* static char msg[4096]

\* -------------------------------------------------------------- dump part
Dumps    == {1, 2}       \* two dump activations, each on a thread of its own
\* What a caller passes: (ziti_context ztx, ziti_printer_cb_wrapper printer, void *ctx)
Callers  == {[ztx |-> "ztxA", printer |-> "printerA", ctx |-> "ctxA"],
             [ztx |-> "ztxB", printer |-> "printerB", ctx |-> "ctxB"]}
RetVals  == {0, 1}                    \* what a wrapped printer may return
Fmts     == {"f1", "f2"}              \* distinct fmt+args of emitted lines
LineLens == {1, MsgSize - 1, MsgSize} \* byte length of the full formatted text

\* A text is identified by what produced it and by its length in bytes.
Text(f, n) == [fmt |-> f, len |-> n]
EmptyText  == Text("empty", 0)        \* zero-initialised static storage
TornText   == Text("torn", 0)         \* bytes of two overlapping writes
NoText     == Text("none", 0)
NoCall     == [ctx |-> "none", printer |-> "none", text |-> NoText,
               expect |-> NoText, ret |-> 0, returned |-> 0]
NoArgs     == [ztx |-> "none", printer |-> "none", ctx |-> "none"]
NoDumpCall == [ztx |-> "none", printer |-> "none", ctx |-> 0]
NoZdctx    == [ctx |-> "none", printer |-> "none"]

\* vsnprintf(msg, sizeof(msg), fmt, vargs): at most sizeof(msg)-1 bytes and a NUL.
Vsnprintf(t, size) == [t EXCEPT !.len = Min(t.len, size - 1)]

\* ziti_dump_ctx zdctx; is a local of ziti_dump_wrapper: one per activation.
ZdctxAddrStatic(d) == 1
ZdctxAddr(d) == d

\* return zdctx->printer(zdctx->ctx, msg): the callee's value is the result.
PrinterResult(r) == r

\* ziti_dump_wrapper(ztx, printer, ctx): fill zdctx, call ziti_dump.
ziti_dump_wrapper(d) ==
    /\ dpc[d] = "idle"
    /\ \E a \in Callers :
         /\ caller' = [caller EXCEPT ![d] = a]
         /\ zdctxMem' = [zdctxMem EXCEPT ![ZdctxAddr(d)] =
                [ctx |-> a.ctx, printer |-> a.printer]]
         /\ dumpCall' = [dumpCall EXCEPT ![d] =
                [ztx |-> a.ztx, printer |-> "ziti_dump_printer", ctx |-> ZdctxAddr(d)]]
    /\ dpc' = [dpc EXCEPT ![d] = "dumping"]
    /\ UNCHANGED <<emitted, cur, msg, lastCall, nCalls>>
    /\ UNCHANGED <<copyVars, pipeVars>>

\* ziti_dump (library) emits one more line: it calls the printer it was given,
\* ziti_dump_printer, with its ctx and some fmt and arguments.
ziti_dump_line(d) ==
    /\ dpc[d] = "dumping"
    /\ emitted[d] < MaxLines
    /\ \E f \in Fmts, n \in LineLens :
         cur' = [cur EXCEPT ![d] = Text(f, n)]
    /\ emitted' = [emitted EXCEPT ![d] = @ + 1]
    /\ lastCall' = [lastCall EXCEPT ![d] = NoCall]
    /\ dpc' = [dpc EXCEPT ![d] = "formatting"]
    /\ UNCHANGED <<caller, zdctxMem, dumpCall, msg, nCalls>>
    /\ UNCHANGED <<copyVars, pipeVars>>

\* What the other activations that are inside vsnprintf are writing into the
\* same static buffer.
RacingWrites(d) ==
    {Vsnprintf(cur[e], MsgSize) : e \in {x \in Dumps \ {d} : dpc[x] = "formatting"}}

\* vsnprintf(msg, sizeof(msg), fmt, vargs) into the static buffer. Two writes
\* that overlap in time are a data race: the buffer may hold a mix of both.
ziti_dump_printer_format(d) ==
    /\ dpc[d] = "formatting"
    /\ \/ msg' = Vsnprintf(cur[d], MsgSize)
       \/ /\ \E t \in RacingWrites(d) : t # Vsnprintf(cur[d], MsgSize)
          /\ msg' = TornText
    /\ dpc' = [dpc EXCEPT ![d] = "formatted"]
    /\ UNCHANGED <<caller, zdctxMem, dumpCall, emitted, cur, lastCall, nCalls>>
    /\ UNCHANGED <<copyVars, pipeVars>>

\* return zdctx->printer(zdctx->ctx, msg): the wrapped printer reads the static
\* buffer as it is now; a read that overlaps a write is a data race.
ziti_dump_printer_call(d) ==
    /\ dpc[d] = "formatted"
    /\ \E r \in RetVals, seen \in {msg, TornText} :
         /\ seen = TornText => (msg = TornText \/ \E t \in RacingWrites(d) : t # msg)
         /\ lastCall' = [lastCall EXCEPT ![d] =
                [ctx      |-> zdctxMem[dumpCall[d].ctx].ctx,
                 printer  |-> zdctxMem[dumpCall[d].ctx].printer,
                 text     |-> seen,
                 expect   |-> cur[d],
                 ret      |-> r,
                 returned |-> PrinterResult(r)]]
    /\ nCalls' = [nCalls EXCEPT ![d] = @ + 1]
    /\ cur' = [cur EXCEPT ![d] = NoText]
    /\ dpc' = [dpc EXCEPT ![d] = "dumping"]
    /\ UNCHANGED <<caller, zdctxMem, dumpCall, emitted, msg>>
    /\ UNCHANGED <<copyVars, pipeVars>>

\* ziti_dump returns, and with it ziti_dump_wrapper.
ziti_dump_return(d) ==
    /\ dpc[d] = "dumping"
    /\ lastCall' = [lastCall EXCEPT ![d] = NoCall]
    /\ dpc' = [dpc EXCEPT ![d] = "done"]
    /\ UNCHANGED <<caller, zdctxMem, dumpCall, emitted, cur, msg, nCalls>>
    /\ UNCHANGED <<copyVars, pipeVars>>

DumpInit ==
    /\ dpc = [d \in Dumps |-> "idle"]
    /\ caller = [d \in Dumps |-> NoArgs]
    /\ zdctxMem = [a \in Dumps |-> NoZdctx]
    /\ dumpCall = [d \in Dumps |-> NoDumpCall]
    /\ emitted = [d \in Dumps |-> 0]
    /\ cur = [d \in Dumps |-> NoText]
    /\ msg = EmptyText
    /\ lastCall = [d \in Dumps |-> NoCall]
    /\ nCalls = [d \in Dumps |-> 0]

DumpNext ==
    \E d \in Dumps :
        \/ ziti_dump_wrapper(d)
        \/ ziti_dump_line(d)
        \/ ziti_dump_printer_format(d)
        \/ ziti_dump_printer_call(d)
        \/ ziti_dump_return(d)

\* -------------------------------------------------------------- copy part
NULL     == 0
StrAddrs == 1..NumStrs                  \* the caller's strings
ArrAddr  == NumStrs + 1                 \* the caller's array
Addrs    == 1..(NumStrs + 1 + FreeBlocks)
Free     == [kind |-> "free"]
StrBlock(bytes) == [kind |-> "str", bytes |-> bytes]
ArrBlock(ptrs)  == [kind |-> "arr", ptrs |-> ptrs]
NoOp     == [fn |-> "none", arg |-> NULL, count |-> 0, pre |-> <<>>]

\* The strings a caller may hold: one per address, told apart by content.
CallerString(a) == IF a % 2 = 1 THEN <<"a">> ELSE <<"b", "a">>

\* The arrays a caller may pass: up to MaxCount pointers, NULL among them.
CallerArrays == UNION {[1..n -> StrAddrs \cup {NULL}] : n \in 0..MaxCount}

FreeAddrs == {a \in Addrs : mem[a] = Free}
Lowest(S) == CHOOSE a \in S : \A b \in S : a <= b

\* calloc(n, sizeof(char*)): n zeroed entries.
Calloc(n) == [i \in 1..n |-> NULL]

\* memcpy(dst, src, n * sizeof(char*)): the first n entries of src over dst.
Memcpy(dst, src, n) == [i \in 1..Len(dst) |-> IF i <= n THEN src[i] ELSE dst[i]]

\* strdup(str): a new block holding the bytes of str.
Strdup(bytes) == bytes

\* The caller fills its array before it passes it on.
caller_fills_array ==
    /\ cpc = "idle"
    /\ \E arr \in CallerArrays : mem' = [mem EXCEPT ![ArrAddr] = ArrBlock(arr)]
    /\ UNCHANGED <<cpc, cop, arrCpy, result, owned, allocFailed, nullUsed, terminated,
                   shutdownAttempted>>
    /\ UNCHANGED <<dumpVars, pipeVars>>

\* char **copyStringArray(char *const arr[], int count)
copyStringArray_call ==
    /\ cpc = "idle"
    /\ \E count \in 0..Len(mem[ArrAddr].ptrs) :
         /\ cop' = [fn |-> "copyStringArray", arg |-> ArrAddr, count |-> count,
                 pre |-> mem]
         /\ IF count = 0
            THEN /\ result' = NULL                       \* if (count == 0) return 0;
                 /\ cpc' = "returned"
            ELSE /\ result' = result
                 /\ cpc' = "csa_calloc"
    /\ UNCHANGED <<mem, arrCpy, owned, allocFailed, nullUsed, terminated,
                   shutdownAttempted>>
    /\ UNCHANGED <<dumpVars, pipeVars>>

\* char **arrCpy = calloc((count + 1), sz); the allocation may fail.
copyStringArray_calloc ==
    /\ cpc = "csa_calloc"
    /\ \/ /\ FreeAddrs # {}
          /\ arrCpy' = Lowest(FreeAddrs)
          /\ mem' = [mem EXCEPT ![Lowest(FreeAddrs)] = ArrBlock(Calloc(cop.count + 1))]
          /\ UNCHANGED allocFailed
       \/ /\ arrCpy' = NULL
          /\ allocFailed' = TRUE
          /\ UNCHANGED mem
    /\ cpc' = "csa_memcpy"
    /\ UNCHANGED <<cop, result, owned, nullUsed, terminated, shutdownAttempted>>
    /\ UNCHANGED <<dumpVars, pipeVars>>

\* memcpy(arrCpy, arr, count * sz); return arrCpy;  arrCpy is not tested: with
\* arrCpy == NULL the memcpy writes through a null pointer, which is undefined:
\* the process faults, or the write goes unnoticed and NULL is returned.
copyStringArray_memcpy ==
    /\ cpc = "csa_memcpy"
    /\ \/ /\ arrCpy # NULL
          /\ mem' = [mem EXCEPT ![arrCpy] =
                 ArrBlock(Memcpy(mem[arrCpy].ptrs, mem[cop.arg].ptrs, cop.count))]
          /\ result' = arrCpy
          /\ cpc' = "returned"
          /\ UNCHANGED <<nullUsed, terminated>>
       \/ /\ arrCpy = NULL
          /\ nullUsed' = TRUE
          /\ \/ /\ cpc' = "crashed"
                /\ terminated' = TRUE
                /\ UNCHANGED result
             \/ /\ cpc' = "returned"
                /\ result' = NULL
                /\ UNCHANGED terminated
          /\ UNCHANGED mem
    /\ UNCHANGED <<cop, arrCpy, owned, allocFailed, shutdownAttempted>>
    /\ UNCHANGED <<dumpVars, pipeVars>>

\* char *copyString(const char *str): str ? strdup(str) : NULL
copyString_call ==
    /\ cpc = "idle"
    /\ \E str \in StrAddrs \cup {NULL} :
         /\ cop' = [fn |-> "copyString", arg |-> str, count |-> 0, pre |-> mem]
         /\ IF str = NULL
            THEN /\ result' = NULL
                 /\ cpc' = "returned"
            ELSE /\ result' = result
                 /\ cpc' = "cs_strdup"
    /\ UNCHANGED <<mem, arrCpy, owned, allocFailed, nullUsed, terminated,
                   shutdownAttempted>>
    /\ UNCHANGED <<dumpVars, pipeVars>>

\* strdup(str): a new block, or NULL when the allocation fails; returned as is.
copyString_strdup ==
    /\ cpc = "cs_strdup"
    /\ \/ /\ FreeAddrs # {}
          /\ result' = Lowest(FreeAddrs)
          /\ mem' = [mem EXCEPT ![Lowest(FreeAddrs)] = StrBlock(Strdup(mem[cop.arg].bytes))]
          /\ UNCHANGED allocFailed
       \/ /\ result' = NULL
          /\ allocFailed' = TRUE
          /\ UNCHANGED mem
    /\ cpc' = "returned"
    /\ UNCHANGED <<cop, arrCpy, owned, nullUsed, terminated, shutdownAttempted>>
    /\ UNCHANGED <<dumpVars, pipeVars>>

\* The helper's caller takes the returned pointer.
helper_return ==
    /\ cpc = "returned"
    /\ cpc' = "idle"
    /\ owned' = IF result = NULL THEN owned ELSE owned \cup {result}
    /\ cop' = NoOp
    /\ arrCpy' = NULL
    /\ result' = NULL
    /\ allocFailed' = FALSE
    /\ nullUsed' = FALSE
    /\ UNCHANGED <<mem, terminated, shutdownAttempted>>
    /\ UNCHANGED <<dumpVars, pipeVars>>

\* void freeStringArray(char **arr): if (arr) free(arr);  the array only.
freeStringArray ==
    /\ cpc = "idle"
    /\ \E p \in {a \in owned : mem[a].kind = "arr"} \cup {NULL} :
         IF p # NULL
         THEN /\ mem' = [mem EXCEPT ![p] = Free]
              /\ owned' = owned \ {p}
         ELSE UNCHANGED <<mem, owned>>
    /\ UNCHANGED <<cpc, cop, arrCpy, result, allocFailed, nullUsed, terminated,
                   shutdownAttempted>>
    /\ UNCHANGED <<dumpVars, pipeVars>>

\* void freeString(char *str): if (str) free(str);
freeString ==
    /\ cpc = "idle"
    /\ \E p \in {a \in owned : mem[a].kind = "str"} \cup {NULL} :
         IF p # NULL
         THEN /\ mem' = [mem EXCEPT ![p] = Free]
              /\ owned' = owned \ {p}
         ELSE UNCHANGED <<mem, owned>>
    /\ UNCHANGED <<cpc, cop, arrCpy, result, allocFailed, nullUsed, terminated,
                   shutdownAttempted>>
    /\ UNCHANGED <<dumpVars, pipeVars>>

CopyInit ==
    /\ cpc = "idle"
    /\ cop = NoOp
    /\ mem = [a \in Addrs |->
                IF a \in StrAddrs THEN StrBlock(CallerString(a))
                ELSE IF a = ArrAddr THEN ArrBlock(<<>>)
                ELSE Free]
    /\ arrCpy = NULL
    /\ result = NULL
    /\ owned = {}
    /\ allocFailed = FALSE
    /\ nullUsed = FALSE
    /\ terminated = FALSE
    /\ shutdownAttempted = FALSE

CopyNext ==
    \/ caller_fills_array
    \/ copyStringArray_call
    \/ copyStringArray_calloc
    \/ copyStringArray_memcpy
    \/ copyString_call
    \/ copyString_strdup
    \/ helper_return
    \/ freeStringArray
    \/ freeString

\* -------------------------------------------------------------- pipe part
UserDatas == {"udA", "udB"}            \* void *user_data values
NoBcc     == [pending_cb |-> "none", consumed_cb |-> "none", user_data |-> "none"]
NoCb      == [cb |-> "none", len |-> 0, user_data |-> "none"]

\* bytes_pending_cb(len, user_data): len more bytes are pending.
PendingCb(p, len) == p + len

\* bytes_consumed_cb(len, user_data): len pending bytes were consumed.
ConsumedCb(p, len) == p - len

\* Reads pause once the pending bytes have crossed the high-water mark.
PauseNever(p) == FALSE
PauseAt(p) == p > HighWater

\* Reads resume once the pending bytes have fallen below the low-water mark.
ResumeAt(p) == p < LowWater

\* void set_bytes_consumed_cb(bytes_consumed_cb_context *bcc)
set_bytes_consumed_cb ==
    /\ bcc = NoBcc
    /\ \E u \in UserDatas :
         bcc' = [pending_cb |-> "pending_cb", consumed_cb |-> "consumed_cb",
                 user_data |-> u]
    /\ UNCHANGED <<pending, paused, inflight, throttled, lastCb>>
    /\ UNCHANGED <<dumpVars, copyVars>>

\* A read from the local source is started; none is while reads are paused.
local_read_start ==
    /\ bcc # NoBcc
    /\ ~paused
    /\ inflight = 0
    /\ \E n \in 1..MaxRead : inflight' = n
    /\ UNCHANGED <<bcc, pending, paused, throttled, lastCb>>
    /\ UNCHANGED <<dumpVars, copyVars>>

\* The read completes and its bytes are handed to the remote side:
\* bcc->pending_cb(len, bcc->user_data).
local_read_done ==
    /\ inflight > 0
    /\ pending' = PendingCb(pending, inflight)
    /\ paused' = (paused \/ PauseAt(PendingCb(pending, inflight)))
    /\ lastCb' = [cb |-> bcc.pending_cb, len |-> inflight, user_data |-> bcc.user_data]
    /\ inflight' = 0
    /\ UNCHANGED <<bcc, throttled>>
    /\ UNCHANGED <<dumpVars, copyVars>>

\* The remote side takes len bytes: bcc->consumed_cb(len, bcc->user_data).
remote_consume ==
    /\ bcc # NoBcc
    /\ ~throttled
    /\ \E n \in 1..pending :
         /\ pending' = ConsumedCb(pending, n)
         /\ paused' = (paused /\ ~ResumeAt(ConsumedCb(pending, n)))
         /\ lastCb' = [cb |-> bcc.consumed_cb, len |-> n, user_data |-> bcc.user_data]
    /\ UNCHANGED <<bcc, inflight, throttled>>
    /\ UNCHANGED <<dumpVars, copyVars>>

\* The remote side stops consuming, or starts again.
remote_throttle ==
    /\ throttled' = ~throttled
    /\ UNCHANGED <<bcc, pending, paused, inflight, lastCb>>
    /\ UNCHANGED <<dumpVars, copyVars>>

PipeInit ==
    /\ bcc = NoBcc
    /\ pending = 0
    /\ paused = FALSE
    /\ inflight = 0
    /\ throttled = FALSE
    /\ lastCb = NoCb

PipeNext ==
    \/ set_bytes_consumed_cb
    \/ local_read_start
    \/ local_read_done
    \/ remote_consume
    \/ remote_throttle

Init == DumpInit /\ CopyInit /\ PipeInit
Next == DumpNext \/ CopyNext \/ PipeNext
Spec == Init /\ [][Next]_vars

\* The parts share no variable: a claim about one part is checked with the
\* other parts at rest.
SpecDump == Init /\ [][DumpNext]_vars
SpecCopy == Init /\ [][CopyNext]_vars
SpecPipe == Init /\ [][PipeNext]_vars

\* ------------------------------------------------------------ properties

\* A dump activation whose wrapped printer has just been called.
JustCalled(d) == lastCall[d] # NoCall

EachPrinterCallGetsItsOwnText ==
    \A d \in Dumps :
        JustCalled(d) => /\ lastCall[d].text = Vsnprintf(lastCall[d].expect, MsgSize)
                         /\ lastCall[d].returned = lastCall[d].ret

\* What copyStringArray(arr, count) is to return: NULL for count = 0, else a
\* block that was free at entry, of count+1 entries, the first count those of
\* arr in order, the last NULL; every other block as it was at entry.
CopyStringArrayPost ==
    /\ IF cop.count = 0
       THEN result = NULL
       ELSE /\ result # NULL
            /\ cop.pre[result] = Free
            /\ mem[result].kind = "arr"
            /\ Len(mem[result].ptrs) = cop.count + 1
            /\ \A i \in 1..cop.count : mem[result].ptrs[i] = cop.pre[cop.arg].ptrs[i]
            /\ mem[result].ptrs[cop.count + 1] = NULL
    /\ \A a \in Addrs \ {result} : mem[a] = cop.pre[a]

\* A call of copyStringArray has come to its end.
CopyStringArrayEnded == cop.fn = "copyStringArray" /\ cpc \in {"returned", "crashed"}

\* C9: for every arr and count >= 0, copyStringArray returns, and returns the
\* shallow NULL-terminated copy described by CopyStringArrayPost.
CopyStringArrayReturnsShallowCopy ==
    CopyStringArrayEnded => (cpc = "returned" /\ CopyStringArrayPost)

\* C8: a failed calloc or strdup is never written through, and the call it
\* failed in ends with the process terminated after shutdownAll() was attempted.
AllocFailureShutsDownAndTerminates ==
    /\ ~nullUsed
    /\ (allocFailed /\ cpc \in {"returned", "crashed"}) =>
            (terminated /\ shutdownAttempted)

\* C3: the pending bytes never exceed the high-water mark plus one read; reads
\* are paused whenever the pending bytes are above the high-water mark, a read
\* starts only while reads are not paused, and paused reads resume only on a
\* step that leaves the pending bytes below the low-water mark.
PendingBytesBounded ==
    /\ [](pending <= HighWater + MaxRead)
    /\ [](pending > HighWater => paused)
    /\ [][inflight' > inflight => ~paused]_vars
    /\ [][(paused /\ ~paused') => pending' < LowWater]_vars

\* Witness of C3: the remote side consumes nothing, the pending bytes have
\* crossed the high-water mark by a full read, and reads are paused.
ThrottledAtHighWater ==
    /\ throttled
    /\ paused
    /\ inflight = 0
    /\ pending = HighWater + MaxRead
====
